---- MODULE Spec2Model ----
(***************************************************************************)
(* Model of scripts/credential_manager.py (class CredentialManager).       *)
(*                                                                         *)
(* A Python str is a sequence of symbols.  The symbols " ", "=" and "#"    *)
(* are the whitespace, separator and comment characters; every other      *)
(* symbol stands for a fixed run of characters holding none of the three.  *)
(* A Python dict is a sequence of <<key, value>> pairs with distinct keys, *)
(* in insertion order (the order in which a dict is iterated).             *)
(***************************************************************************)
EXTENDS Integers, Sequences, FiniteSets, TLC

VARIABLES
    fs,           \* the credentials directory: path -> [exists, mode, lines]
    credentials,  \* self.credentials: service -> dict
    environ,      \* os.environ: key -> value
    last,         \* the call that ran last: its name, argument, return value,
                  \* notifications and the files it opened
    history       \* for the properties: exported (key -> value of the most
                  \* recent load that returned True and held the key),
                  \* succeeded (the services such a load stored) and
                  \* raised (an export loop has raised)

vars == <<fs, credentials, environ, last, history>>

-----------------------------------------------------------------------------
(* Bounds of the enumerated inputs *)

MaxLineLen == 4
MaxLines == 3
MaxModeBits == 12

-----------------------------------------------------------------------------
(* Python str and dict primitives *)

WS == " "
EQ == "="
HASH == "#"

RECURSIVE lstrip(_)
lstrip(s) ==
    IF s # <<>> /\ Head(s) = WS THEN lstrip(Tail(s)) ELSE s

RECURSIVE rstrip(_)
rstrip(s) ==
    IF s # <<>> /\ s[Len(s)] = WS THEN rstrip(SubSeq(s, 1, Len(s) - 1)) ELSE s

strip(s) == rstrip(lstrip(s))

startswith(s, prefix) ==
    /\ Len(s) >= Len(prefix)
    /\ SubSeq(s, 1, Len(prefix)) = prefix

Contains(s, c) == \E i \in 1..Len(s) : s[i] = c

\* str.find: index of the first occurrence of c at or after position i, 0 if none
RECURSIVE find(_, _, _)
find(s, c, i) ==
    IF i > Len(s) THEN 0
    ELSE IF s[i] = c THEN i
    ELSE find(s, c, i + 1)

\* str.rfind: index of the last occurrence of c at or before position i
RECURSIVE rfind(_, _, _)
rfind(s, c, i) ==
    IF i < 1 THEN 0
    ELSE IF s[i] = c THEN i
    ELSE rfind(s, c, i - 1)

\* faulty variant of split1: splits at the last '=' (line.rsplit('=', 1))
rsplit1(line) ==
    LET i == rfind(line, EQ, Len(line))
    IN  <<SubSeq(line, 1, i - 1), SubSeq(line, i + 1, Len(line))>>

\* line.split('=', 1), for a line that holds an '='
split1(line) ==
    LET i == find(line, EQ, 1)
    IN  <<SubSeq(line, 1, i - 1), SubSeq(line, i + 1, Len(line))>>

DictKeys(d) == {d[i][1] : i \in 1..Len(d)}

DictGet(d, k) == d[CHOOSE i \in 1..Len(d) : d[i][1] = k][2]

\* d[k] = v: a key already present keeps its place
DictSet(d, k, v) ==
    IF k \in DictKeys(d)
    THEN [i \in 1..Len(d) |-> IF d[i][1] = k THEN <<k, v>> ELSE d[i]]
    ELSE Append(d, <<k, v>>)

\* dict equality: the same keys with the same values, whatever the order
DictEq(d, e) ==
    /\ DictKeys(d) = DictKeys(e)
    /\ \A k \in DictKeys(d) : DictGet(d, k) = DictGet(e, k)

-----------------------------------------------------------------------------
(* load_credentials, lines 106-115: the line parser *)

\* faulty variant of ParseLine: without the startswith('#') test of line 109
ParseLineNoComment(creds, raw) ==
    LET line == strip(raw)
    IN  IF line = <<>> THEN creds
        ELSE IF Contains(line, EQ)
        THEN LET kv == split1(line)
             IN  DictSet(creds, strip(kv[1]), strip(kv[2]))
        ELSE creds

ParseLine(creds, raw) ==
    LET line == strip(raw)
    IN  IF line = <<>> \/ Head(line) = HASH THEN creds
        ELSE IF Contains(line, EQ)
        THEN LET kv == split1(line)
             IN  DictSet(creds, strip(kv[1]), strip(kv[2]))
        ELSE creds

RECURSIVE ParseFrom(_, _)
ParseFrom(creds, lines) ==
    IF lines = <<>> THEN creds
    ELSE ParseFrom(ParseLine(creds, Head(lines)), Tail(lines))

Parse(lines) == ParseFrom(<<>>, lines)

-----------------------------------------------------------------------------
(* stat constants and bit arithmetic on file modes *)

S_IRWXG == 56
S_IRWXO == 7
S_IRUSR == 256
S_IWUSR == 128

RECURSIVE BitAnd(_, _)
BitAnd(a, b) ==
    IF a = 0 \/ b = 0 THEN 0
    ELSE 2 * BitAnd(a \div 2, b \div 2) + (IF a % 2 = 1 /\ b % 2 = 1 THEN 1 ELSE 0)

RECURSIVE BitOr(_, _)
BitOr(a, b) ==
    IF a = 0 THEN b
    ELSE IF b = 0 THEN a
    ELSE 2 * BitOr(a \div 2, b \div 2) + (IF a % 2 = 1 \/ b % 2 = 1 THEN 1 ELSE 0)

-----------------------------------------------------------------------------
(* The credentials directory *)

ServiceNames == {"supabase", "stripe", "aws", "github", "custom"}

Suffixes == {".env", ".env.template"}

Paths == [service : ServiceNames, suffix : Suffixes]

\* self.cred_dir / f"{service}.env"
CredFile(service) == [service |-> service, suffix |-> ".env"]

\* self.cred_dir / f"{service}.env.template"
TemplateFile(service) == [service |-> service, suffix |-> ".env.template"]

Absent == [exists |-> FALSE, mode |-> 0, lines |-> <<>>]

File(mode, lines) == [exists |-> TRUE, mode |-> mode, lines |-> lines]

\* os.chmod; the operator owns the files of the directory, so it succeeds
chmod(fsys, path, mode) == [fsys EXCEPT ![path].mode = mode]

\* a service name as a Python str
Str(name) == <<name>>

\* one notification (_print_success, _print_error, _print_warning, _print_info);
\* args is a sequence of Python strs
Note(level, msg, arg) == [level |-> level, msg |-> msg, arg |-> arg]

Call(op, service, ret, reports, opened) ==
    [op |-> op, service |-> service, ret |-> ret, reports |-> reports,
     opened |-> opened]

-----------------------------------------------------------------------------
(* _check_file_permissions, lines 75-90 *)

\* faulty variant of check_file_permissions: the mask of line 84 without S_IRWXG
check_file_permissions_other_only(fsys, path) ==
    IF ~fsys[path].exists
    THEN [ret |-> "False", fs |-> fsys, reports |-> <<>>]
    ELSE IF BitAnd(fsys[path].mode, S_IRWXO) # 0
    THEN [ret |-> "True",
          fs |-> chmod(fsys, path, BitOr(S_IRUSR, S_IWUSR)),
          reports |-> <<Note("WARNING", "Insecure permissions", <<Str(path.service)>>),
                        Note("SUCCESS", "Fixed permissions to 600", <<>>)>>]
    ELSE [ret |-> "True", fs |-> fsys, reports |-> <<>>]

check_file_permissions(fsys, path) ==
    IF ~fsys[path].exists
    THEN [ret |-> "False", fs |-> fsys, reports |-> <<>>]
    ELSE IF BitAnd(fsys[path].mode, BitOr(S_IRWXG, S_IRWXO)) # 0
    THEN [ret |-> "True",
          fs |-> chmod(fsys, path, BitOr(S_IRUSR, S_IWUSR)),
          reports |-> <<Note("WARNING", "Insecure permissions", <<Str(path.service)>>),
                        Note("SUCCESS", "Fixed permissions to 600", <<>>)>>]
    ELSE [ret |-> "True", fs |-> fsys, reports |-> <<>>]

\* the method called on a service's credential file
CheckFilePermissions(service) ==
    LET guard == check_file_permissions(fs, CredFile(service))
    IN  /\ fs' = guard.fs
        /\ last' = Call("_check_file_permissions", service, guard.ret,
                        guard.reports, {})
        /\ UNCHANGED <<credentials, environ, history>>

-----------------------------------------------------------------------------
(* load_credentials, lines 92-128 *)

\* open(cred_file, 'r'): the owner needs the read bit, the superuser does not
CanOpen(mode) ==
    IF BitAnd(mode, S_IRUSR) # 0 THEN {TRUE} ELSE {TRUE, FALSE}

\* os.environ[key] = value
EnvSet(env, key, value) ==
    [k \in DOMAIN env \cup {key} |-> IF k = key THEN value ELSE env[k]]

\* faulty variant of Export: os.environ.setdefault(key, value)
RECURSIVE ExportKeepExisting(_, _)
ExportKeepExisting(env, creds) ==
    IF creds = <<>> THEN [environ |-> env, raised |-> FALSE]
    ELSE IF Head(creds)[1] = <<>> THEN [environ |-> env, raised |-> TRUE]
    ELSE ExportKeepExisting(
             IF Head(creds)[1] \in DOMAIN env THEN env
             ELSE EnvSet(env, Head(creds)[1], Head(creds)[2]),
             Tail(creds))

\* lines 121-122: os.environ[''] = value raises OSError, which ends the loop
RECURSIVE Export(_, _)
Export(env, creds) ==
    IF creds = <<>> THEN [environ |-> env, raised |-> FALSE]
    ELSE IF Head(creds)[1] = <<>> THEN [environ |-> env, raised |-> TRUE]
    ELSE Export(EnvSet(env, Head(creds)[1], Head(creds)[2]), Tail(creds))

\* self.credentials[service] = credentials
Store(registry, service, creds) ==
    [s \in DOMAIN registry \cup {service} |->
        IF s = service THEN creds ELSE registry[s]]

\* history kept for the properties: what the loads that returned True exported,
\* which services they loaded, and whether an export loop has raised
Record(h, service, creds, raised) ==
    IF raised THEN [h EXCEPT !.raised = TRUE]
    ELSE [h EXCEPT
            !.exported = [k \in DOMAIN h.exported \cup DictKeys(creds) |->
                            IF k \in DictKeys(creds) THEN DictGet(creds, k)
                            ELSE h.exported[k]],
            !.succeeded = h.succeeded \cup {service}]

\* faulty variant of load_missing: the registry is reset on the way out
load_missing_resets(service) ==
    /\ last' = Call("load_credentials", service, "False",
                    <<Note("ERROR", "Credential file not found",
                           <<Str(service)>>)>>, {})
    /\ credentials' = <<>>
    /\ UNCHANGED <<fs, environ, history>>

\* lines 96-98
load_missing(service) ==
    /\ last' = Call("load_credentials", service, "False",
                    <<Note("ERROR", "Credential file not found",
                           <<Str(service)>>)>>, {})
    /\ UNCHANGED <<fs, credentials, environ, history>>

\* lines 100-128
load_present(service) ==
    LET cred_file == CredFile(service)
        guard == check_file_permissions(fs, cred_file)
    IN  \E can_open \in CanOpen(guard.fs[cred_file].mode) :
            IF ~can_open
            THEN /\ fs' = guard.fs
                 /\ last' = Call("load_credentials", service, "False",
                                 guard.reports \o
                                 <<Note("ERROR", "Error loading credentials",
                                        <<>>)>>, {})
                 /\ UNCHANGED <<credentials, environ, history>>
            ELSE LET creds == Parse(fs[cred_file].lines)
                     out == Export(environ, creds)
                 IN  /\ fs' = guard.fs
                     /\ credentials' = Store(credentials, service, creds)
                     /\ environ' = out.environ
                     /\ history' = Record(history, service, creds, out.raised)
                     /\ last' = Call("load_credentials", service,
                                     IF out.raised THEN "False" ELSE "True",
                                     guard.reports \o
                                     <<Note("SUCCESS", "Loaded credentials",
                                            <<Str(service)>>)>> \o
                                     (IF out.raised
                                      THEN <<Note("ERROR",
                                                  "Error loading credentials",
                                                  <<>>)>>
                                      ELSE <<>>),
                                     {cred_file})

load_credentials(service) ==
    IF ~fs[CredFile(service)].exists
    THEN load_missing(service)
    ELSE load_present(service)

-----------------------------------------------------------------------------
(* _validate_service, lines 164-185, and the three service validators *)

RegionShaped == {"us-east-1"}

\* re.match(pattern, value) for the patterns of lines 134-136, 143-144, 160-161
re_match(pattern, value) ==
    CASE pattern = "^https://.*\\.supabase\\.co$" ->
            /\ Len(value) >= 2
            /\ value[1] = "https://"
            /\ value[Len(value)] = ".supabase.co"
      [] pattern = "^eyJ" -> startswith(value, <<"eyJ">>)
      [] pattern = "^sk_(test|live)_" ->
            startswith(value, <<"sk_test_">>) \/ startswith(value, <<"sk_live_">>)
      [] pattern = "^pk_(test|live)_" ->
            startswith(value, <<"pk_test_">>) \/ startswith(value, <<"pk_live_">>)
      [] pattern = "^AKIA" -> startswith(value, <<"AKIA">>)
      [] pattern = "^[a-z]{2}-[a-z]+-[0-9]$" ->
            Len(value) = 1 /\ value[1] \in RegionShaped

\* line 171
Missing(creds, required) ==
    SelectSeq(required,
              LAMBDA var : var \notin DictKeys(creds) \/ DictGet(creds, var) = <<>>)

\* lines 178-182, in the order of patterns.items()
RECURSIVE PatternWarnings(_, _)
PatternWarnings(creds, patterns) ==
    IF patterns = <<>> THEN <<>>
    ELSE LET key == Head(patterns)[1]
             pattern == Head(patterns)[2]
             warn == /\ key \in DictKeys(creds)
                     /\ DictGet(creds, key) # <<>>
                     /\ ~re_match(pattern, DictGet(creds, key))
         IN  (IF warn
              THEN <<Note("WARNING", "format may be incorrect", <<key>>)>>
              ELSE <<>>) \o PatternWarnings(creds, Tail(patterns))

\* faulty variant of validate_service: line 171 without 'or not creds[var]'
validate_service_absent_only(registry, service, required, patterns) ==
    IF service \notin DOMAIN registry
    THEN [ret |-> "False",
          reports |-> <<Note("ERROR", "Credentials not loaded", <<Str(service)>>)>>]
    ELSE LET creds == registry[service]
             missing == SelectSeq(required, LAMBDA var : var \notin DictKeys(creds))
         IN  IF missing # <<>>
             THEN [ret |-> "False",
                   reports |-> <<Note("ERROR", "Missing credentials", missing)>>]
             ELSE [ret |-> "True",
                   reports |-> PatternWarnings(creds, patterns) \o
                       <<Note("SUCCESS", "credentials validated", <<Str(service)>>)>>]

\* faulty variant of validate_service: a pattern mismatch fails the validation
validate_service_strict(registry, service, required, patterns) ==
    IF service \notin DOMAIN registry
    THEN [ret |-> "False",
          reports |-> <<Note("ERROR", "Credentials not loaded", <<Str(service)>>)>>]
    ELSE LET creds == registry[service]
             missing == Missing(creds, required)
         IN  IF missing # <<>>
             THEN [ret |-> "False",
                   reports |-> <<Note("ERROR", "Missing credentials", missing)>>]
             ELSE IF PatternWarnings(creds, patterns) # <<>>
             THEN [ret |-> "False",
                   reports |-> PatternWarnings(creds, patterns)]
             ELSE [ret |-> "True",
                   reports |->
                       <<Note("SUCCESS", "credentials validated", <<Str(service)>>)>>]

validate_service(registry, service, required, patterns) ==
    IF service \notin DOMAIN registry
    THEN [ret |-> "False",
          reports |-> <<Note("ERROR", "Credentials not loaded", <<Str(service)>>)>>]
    ELSE LET creds == registry[service]
             missing == Missing(creds, required)
         IN  IF missing # <<>>
             THEN [ret |-> "False",
                   reports |-> <<Note("ERROR", "Missing credentials", missing)>>]
             ELSE [ret |-> "True",
                   reports |-> PatternWarnings(creds, patterns) \o
                       <<Note("SUCCESS", "credentials validated", <<Str(service)>>)>>]

supabase_required ==
    <<Str("SUPABASE_URL"), Str("SUPABASE_ANON_KEY"), Str("SUPABASE_SERVICE_ROLE_KEY")>>

supabase_patterns ==
    <<<<Str("SUPABASE_URL"), "^https://.*\\.supabase\\.co$">>,
      <<Str("SUPABASE_ANON_KEY"), "^eyJ">>,
      <<Str("SUPABASE_SERVICE_ROLE_KEY"), "^eyJ">>>>

stripe_required == <<Str("STRIPE_SECRET_KEY"), Str("STRIPE_PUBLISHABLE_KEY")>>

stripe_patterns ==
    <<<<Str("STRIPE_SECRET_KEY"), "^sk_(test|live)_">>,
      <<Str("STRIPE_PUBLISHABLE_KEY"), "^pk_(test|live)_">>>>

aws_required ==
    <<Str("AWS_ACCESS_KEY_ID"), Str("AWS_SECRET_ACCESS_KEY"), Str("AWS_REGION"),
      Str("AWS_S3_BUCKET")>>

aws_patterns ==
    <<<<Str("AWS_ACCESS_KEY_ID"), "^AKIA">>,
      <<Str("AWS_REGION"), "^[a-z]{2}-[a-z]+-[0-9]$">>>>

validate_supabase ==
    LET result == validate_service(credentials, "supabase", supabase_required,
                                   supabase_patterns)
    IN  /\ last' = Call("validate_supabase", "supabase", result.ret,
                        result.reports, {})
        /\ UNCHANGED <<fs, credentials, environ, history>>

\* lines 148-152: the mode is read from os.environ
stripe_mode(env) ==
    IF Str("STRIPE_SECRET_KEY") \in DOMAIN env
    THEN IF startswith(env[Str("STRIPE_SECRET_KEY")], <<"sk_test_">>)
         THEN <<Note("INFO", "Using Stripe TEST mode", <<>>)>>
         ELSE IF startswith(env[Str("STRIPE_SECRET_KEY")], <<"sk_live_">>)
         THEN <<Note("WARNING", "Using Stripe LIVE mode", <<>>)>>
         ELSE <<>>
    ELSE <<>>

validate_stripe ==
    LET result == validate_service(credentials, "stripe", stripe_required,
                                   stripe_patterns)
    IN  /\ last' = Call("validate_stripe", "stripe", result.ret,
                        result.reports \o stripe_mode(environ), {})
        /\ UNCHANGED <<fs, credentials, environ, history>>

validate_aws ==
    LET result == validate_service(credentials, "aws", aws_required, aws_patterns)
    IN  /\ last' = Call("validate_aws", "aws", result.ret, result.reports, {})
        /\ UNCHANGED <<fs, credentials, environ, history>>

-----------------------------------------------------------------------------
(* create_template, lines 187-247 *)

template_supabase ==
    <<<<"#", " ", "Supabase", " ", "Credentials">>,
      <<"#", " ", "Get", " ", "these", " ", "from:", " ", "https://", "app", ".supabase.co", "m/project/_/settings/api">>,
      <<>>,
      <<"SUPABASE_URL", "=", "https://", "your-project", ".supabase.co">>,
      <<"SUPABASE_ANON_KEY", "=", "eyJ", "hbGc...your-anon-key">>,
      <<"SUPABASE_SERVICE_ROLE_KEY", "=", "eyJ", "hbGc...your-service-role-key">>,
      <<>>,
      <<"#", " ", "Optional:", " ", "Project", " ", "reference", " ", "for", " ", "CLI">>,
      <<"SUPABASE_PROJECT_REF", "=", "your-project-ref">>>>

template_stripe ==
    <<<<"#", " ", "Stripe", " ", "Credentials">>,
      <<"#", " ", "Get", " ", "these", " ", "from:", " ", "https://", "dashboard.stripe.com/test/apikeys">>,
      <<>>,
      <<"#", " ", "Use", " ", "test", " ", "keys", " ", "for", " ", "development", " ", "(", "sk_test_", "...)">>,
      <<"STRIPE_SECRET_KEY", "=", "sk_test_", "...">>,
      <<"STRIPE_PUBLISHABLE_KEY", "=", "pk_test_", "...">>,
      <<>>,
      <<"#", " ", "Webhook", " ", "signing", " ", "secret", " ", "(for", " ", "webhook", " ", "verification)">>,
      <<"STRIPE_WEBHOOK_SECRET", "=", "whsec_...">>,
      <<>>,
      <<"#", " ", "Optional:", " ", "Product", " ", "IDs">>,
      <<"STRIPE_BUSINESS_SUBSCRIPTION_PRODUCT_ID", "=", "prod_...">>,
      <<"STRIPE_BUSINESS_SUBSCRIPTION_PRICE_ID", "=", "price_...">>>>

template_aws ==
    <<<<"#", " ", "AWS", " ", "Credentials">>,
      <<"#", " ", "Get", " ", "these", " ", "from:", " ", "https://", "console.aws.amazon.com/iam/">>,
      <<>>,
      <<"AWS_ACCESS_KEY_ID", "=", "AKIA", "...">>,
      <<"AWS_SECRET_ACCESS_KEY", "=", "...">>,
      <<"AWS_REGION", "=", "us-east-1">>,
      <<>>,
      <<"#", " ", "S3", " ", "Buckets">>,
      <<"AWS_S3_BUCKET", "=", "socoto-main">>,
      <<"AWS_S3_PROFILE_BUCKET", "=", "socoto-profiles">>,
      <<"AWS_S3_BUSINESS_BUCKET", "=", "socoto-businesses">>,
      <<"AWS_S3_POST_BUCKET", "=", "socoto-posts">>,
      <<"AWS_S3_MESSAGE_BUCKET", "=", "socoto-messages">>>>

template_github ==
    <<<<"#", " ", "GitHub", " ", "Credentials">>,
      <<"#", " ", "Get", " ", "these", " ", "from:", " ", "https://", "github.com/settings/tokens">>,
      <<>>,
      <<"GITHUB_TOKEN", "=", "ghp_...">>,
      <<"GITHUB_REPO_OWNER", "=", "tempandmajor">>,
      <<"GITHUB_REPO_NAME", "=", "socoto">>>>

templates ==
    [service \in {"supabase", "stripe", "aws", "github"} |->
        CASE service = "supabase" -> template_supabase
          [] service = "stripe" -> template_stripe
          [] service = "aws" -> template_aws
          [] service = "github" -> template_github]

\* faulty variant of create_template: without the test of line 237
create_template_any(service) ==
    /\ fs' = [fs EXCEPT ![TemplateFile(service)] =
                File(BitOr(S_IRUSR, S_IWUSR), <<>>)]
    /\ last' = Call("create_template", service, "None", <<>>, {})
    /\ UNCHANGED <<credentials, environ, history>>

create_template(service) ==
    IF service \notin DOMAIN templates
    THEN /\ last' = Call("create_template", service, "None",
                         <<Note("ERROR", "Unknown service", <<Str(service)>>)>>, {})
         /\ UNCHANGED <<fs, credentials, environ, history>>
    ELSE /\ fs' = [fs EXCEPT ![TemplateFile(service)] =
                     File(BitOr(S_IRUSR, S_IWUSR), templates[service])]
         /\ last' = Call("create_template", service, "None",
                         <<Note("SUCCESS", "Created template", <<Str(service)>>),
                           Note("INFO", "Copy to .env and fill in your credentials",
                                <<Str(service)>>)>>, {})
         /\ UNCHANGED <<credentials, environ, history>>

-----------------------------------------------------------------------------
(* The state after __init__ (lines 30-39) and the inputs the runs draw *)

\* a permission mode from its owner, group and other digits (0o644 = Oct(6, 4, 4))
Oct(u, g, o) == 64 * u + 8 * g + o

\* the line "key=value"
KV(key, value) == <<key, EQ>> \o value

\* os.environ as the process inherits it
InheritedEnvirons ==
    {<<>>,
     [k \in {Str("STRIPE_SECRET_KEY")} |-> <<"sk_live_", "inherited">>]}

Directory(stripe, supabase, aws, custom) ==
    [p \in Paths |->
        IF p.suffix # ".env" THEN Absent
        ELSE CASE p.service = "stripe" -> stripe
               [] p.service = "supabase" -> supabase
               [] p.service = "aws" -> aws
               [] p.service = "custom" -> custom
               [] OTHER -> Absent]

Started(dir, env) ==
    /\ fs = dir
    /\ credentials = <<>>
    /\ environ = env
    /\ last = Call("__init__", "", "None", <<>>, {})
    /\ history = [exported |-> <<>>, succeeded |-> {}, raised |-> FALSE]

\* Credential files an operator may have written
StripeFiles ==
    {Absent,
     File(Oct(6, 0, 0), <<KV("STRIPE_SECRET_KEY", <<"sk_test_", "abc">>),
                          KV("STRIPE_PUBLISHABLE_KEY", <<"pk_test_", "abc">>)>>),
     File(Oct(6, 4, 4), <<KV("STRIPE_SECRET_KEY", <<"sk_test_", "abc">>)>>),
     File(Oct(6, 0, 0), <<KV("STRIPE_PUBLISHABLE_KEY", <<"pk_live_", "abc">>)>>),
     File(Oct(6, 0, 0), <<KV("STRIPE_SECRET_KEY", <<"sk_live_", "abc">>),
                          <<EQ, "x">>,
                          KV("STRIPE_PUBLISHABLE_KEY", <<"pk_live_", "abc">>)>>)}

SupabaseFiles ==
    {Absent,
     File(Oct(6, 4, 4),
          <<<<HASH, WS, "Supabase">>,
            KV("SUPABASE_URL", <<"https://", "proj", ".supabase.co">>),
            KV("SUPABASE_ANON_KEY", <<"eyJ", "anon">>),
            KV("SUPABASE_SERVICE_ROLE_KEY", <<"eyJ", "role">>)>>),
     File(Oct(6, 0, 0),
          <<KV("SUPABASE_URL", <<"http://", "example.com">>),
            KV("SUPABASE_ANON_KEY", <<"eyJ", "anon">>),
            KV("SUPABASE_SERVICE_ROLE_KEY", <<"eyJ", "role">>)>>)}

AwsFiles ==
    {Absent,
     File(Oct(4, 0, 0),
          <<KV("AWS_ACCESS_KEY_ID", <<"AKIA", "id">>),
            KV("AWS_SECRET_ACCESS_KEY", <<"secret">>),
            KV("AWS_REGION", <<"us-east-1">>),
            KV("AWS_S3_BUCKET", <<"socoto-main">>),
            KV("SUPABASE_URL", <<"https://", "other", ".supabase.co">>)>>)}

CustomFiles ==
    {Absent,
     File(Oct(6, 0, 0), <<KV("STRIPE_SECRET_KEY", <<"sk_live_", "zzz">>),
                          <<"A", EQ, "b", EQ, "c">>>>),
     File(Oct(0, 0, 0), <<<<"STRIPE_SECRET_KEY", WS, EQ, WS, "sk_test_", "q">>>>),
     File(Oct(6, 6, 0), <<<<EQ, "x">>,
                          KV("STRIPE_SECRET_KEY", <<"sk_test_", "w">>)>>)}

Init ==
    \E stripe \in StripeFiles, supabase \in SupabaseFiles, aws \in AwsFiles,
       custom \in CustomFiles, env \in InheritedEnvirons :
        Started(Directory(stripe, supabase, aws, custom), env)

\* the service names create_template is called with
TemplateArgs == {"stripe", "custom"}

Next ==
    \/ \E service \in ServiceNames : load_credentials(service)
    \/ validate_supabase
    \/ validate_stripe
    \/ validate_aws
    \/ \E service \in TemplateArgs : create_template(service)

Spec == Init /\ [][Next]_vars

-----------------------------------------------------------------------------
(* Validation over every combination of a service's required fields *)

\* a field left out, set to nothing, or set to one of the values
FieldLines(field, values) ==
    {<<>>, <<KV(field, <<>>)>>} \cup {<<KV(field, v)>> : v \in values}

RECURSIVE Combine(_)
Combine(fields) ==
    IF fields = <<>> THEN {<<>>}
    ELSE {first \o rest : first \in Head(fields), rest \in Combine(Tail(fields))}

SupabaseContents ==
    Combine(<<FieldLines("SUPABASE_URL", {<<"https://", "proj", ".supabase.co">>,
                                          <<"http://", "example.com">>}),
              FieldLines("SUPABASE_ANON_KEY", {<<"eyJ", "anon">>, <<"anon">>}),
              FieldLines("SUPABASE_SERVICE_ROLE_KEY", {<<"eyJ", "role">>, <<"role">>})>>)

StripeContents ==
    Combine(<<FieldLines("STRIPE_SECRET_KEY", {<<"sk_test_", "abc">>,
                                               <<"sk_live_", "abc">>,
                                               <<"rk_", "abc">>}),
              FieldLines("STRIPE_PUBLISHABLE_KEY", {<<"pk_test_", "abc">>,
                                                    <<"abc">>})>>)

AwsContents ==
    Combine(<<FieldLines("AWS_ACCESS_KEY_ID", {<<"AKIA", "id">>, <<"id">>}),
              FieldLines("AWS_SECRET_ACCESS_KEY", {<<"secret">>}),
              FieldLines("AWS_REGION", {<<"us-east-1">>, <<"us-east-1", "a">>}),
              FieldLines("AWS_S3_BUCKET", {<<"socoto-main">>})>>)

InitValidate ==
    \E env \in InheritedEnvirons :
        \/ \E c \in SupabaseContents :
              Started(Directory(Absent, File(Oct(6, 0, 0), c), Absent, Absent), env)
        \/ \E c \in StripeContents :
              Started(Directory(File(Oct(6, 0, 0), c), Absent, Absent, Absent), env)
        \/ \E c \in AwsContents :
              Started(Directory(Absent, Absent, File(Oct(6, 0, 0), c), Absent), env)

NextValidate ==
    \/ \E service \in {"supabase", "stripe", "aws"} : load_credentials(service)
    \/ validate_supabase
    \/ validate_stripe
    \/ validate_aws

SpecValidate == InitValidate /\ [][NextValidate]_vars

-----------------------------------------------------------------------------
(* The parser over every short line and over sequences of typical lines *)

Alphabet == {"A", "b", EQ, HASH, WS}

RECURSIVE SeqsUpTo(_, _)
SeqsUpTo(S, n) ==
    IF n = 0 THEN {<<>>}
    ELSE LET shorter == SeqsUpTo(S, n - 1)
         IN  shorter \cup {Append(s, x) : s \in shorter, x \in S}

AllLines == SeqsUpTo(Alphabet, MaxLineLen)

TypicalLines ==
    {<<>>, <<WS>>, <<HASH, WS, "A", EQ, "b">>, <<WS, HASH>>, <<"A">>,
     <<"A", EQ, "b">>, <<"A", EQ, "b", EQ, "c">>, <<WS, "A", WS, EQ, WS, "c", WS>>,
     <<"B", EQ, "c">>, <<"B", EQ>>, <<EQ, "b">>}

ParserInputs ==
    {<<line>> : line \in AllLines} \cup SeqsUpTo(TypicalLines, MaxLines)

InitParse ==
    \E lines \in ParserInputs :
        Started(Directory(Absent, Absent, Absent, File(Oct(6, 0, 0), lines)), <<>>)

NextParse == load_credentials("custom")

SpecParse == InitParse /\ [][NextParse]_vars

-----------------------------------------------------------------------------
(* The permission guard over every mode *)

Modes == 0 .. (2 ^ MaxModeBits - 1)

InitGuard ==
    \/ Started(Directory(Absent, Absent, Absent, Absent), <<>>)
    \/ \E mode \in Modes :
          Started(Directory(Absent, Absent, Absent,
                            File(mode, <<KV("A", <<"b">>)>>)), <<>>)

NextGuard ==
    \/ CheckFilePermissions("custom")
    \/ load_credentials("custom")

SpecGuard == InitGuard /\ [][NextGuard]_vars

-----------------------------------------------------------------------------
(* Properties *)

\* the notifications of the last call that carry message msg
Reported(msg) ==
    {i \in 1..Len(last.reports) : last.reports[i].msg = msg}

\* the mode grants some permission to group or other: one of its low six bits
GrantsGroupOrOther(mode) == mode % 64 # 0

\* C1: _check_file_permissions returns False and changes nothing when the file
\* does not exist; when it exists it returns True, a mode that granted a bit to
\* group or other becomes exactly 0600, and the mode after the call grants
\* nothing to group or other.
C1_GuardRepairs ==
    [][last'.op = "_check_file_permissions" =>
         LET path == CredFile(last'.service)
         IN  /\ ~fs[path].exists =>
                    /\ last'.ret = "False"
                    /\ UNCHANGED <<fs, credentials, environ>>
             /\ fs[path].exists =>
                    /\ last'.ret = "True"
                    /\ GrantsGroupOrOther(fs[path].mode) =>
                           fs'[path].mode = Oct(6, 0, 0)
                    /\ ~GrantsGroupOrOther(fs'[path].mode)
                    /\ fs'[path].lines = fs[path].lines]_vars

\* a call on a group- and other-readable file has repaired it
C1_Witness ==
    /\ last.op = "_check_file_permissions"
    /\ last.ret = "True"
    /\ Reported("Fixed permissions to 600") # {}
    /\ fs[CredFile(last.service)].mode = Oct(6, 0, 0)

\* C2: load_credentials of a service whose .env file does not exist returns
\* False and leaves the whole registry as it was, after any earlier loads.
C2_MissingFileLeavesRegistry ==
    [][(last'.op = "load_credentials" /\ ~fs[CredFile(last'.service)].exists) =>
         /\ last'.ret = "False"
         /\ credentials' = credentials]_vars

\* a load of a missing file has failed with two other services stored
C2_Witness ==
    /\ last.op = "load_credentials"
    /\ last.ret = "False"
    /\ ~fs[CredFile(last.service)].exists
    /\ Cardinality(DOMAIN credentials) >= 2

\* the line is read: not empty after trimming and not a comment
IsParsed(line) == strip(line) # <<>> /\ Head(strip(line)) # HASH

CountEq(s) == Cardinality({i \in 1..Len(s) : s[i] = EQ})

\* the place of the first '=' of a line that holds one
FirstEq(line) ==
    CHOOSE i \in 1..Len(line) :
        line[i] = EQ /\ \A j \in 1..(i - 1) : line[j] # EQ

\* C7: a parsed line with more than one '=' is split at the first '=' only: the
\* key is the trimmed text before it, the value the trimmed text after it, with
\* every later '=' in it.
C7_FirstEqualsSeparates ==
    LET lines == fs[CredFile("custom")].lines
    IN  ("custom" \in DOMAIN credentials /\ Len(lines) = 1) =>
            LET line == lines[1]
                i == FirstEq(line)
            IN  (IsParsed(line) /\ CountEq(line) > 1) =>
                    /\ credentials["custom"] =
                           <<<<strip(SubSeq(line, 1, i - 1)),
                               strip(SubSeq(line, i + 1, Len(line)))>>>>
                    /\ CountEq(credentials["custom"][1][2]) = CountEq(line) - 1

\* the line A=b=c has been loaded as key A with value b=c
C7_Witness ==
    /\ fs[CredFile("custom")].lines = <<<<"A", EQ, "b", EQ, "c">>>>
    /\ "custom" \in DOMAIN credentials
    /\ credentials["custom"] = <<<<<<"A">>, <<"b", EQ, "c">>>>>>

\* the line is empty after trimming, a comment, or holds no '='
Ignorable(line) ==
    \/ strip(line) = <<>>
    \/ Head(strip(line)) = HASH
    \/ ~Contains(line, EQ)

IgnorableLines == {line \in TypicalLines \cup SeqsUpTo(Alphabet, 2) : Ignorable(line)}

Remove(lines, i) == SubSeq(lines, 1, i - 1) \o SubSeq(lines, i + 1, Len(lines))

Insert(lines, i, line) ==
    SubSeq(lines, 1, i) \o <<line>> \o SubSeq(lines, i + 1, Len(lines))

\* C8: removing an ignorable line from the file, or inserting one at any place,
\* gives the same mapping as the one loaded, and a load fails over no such line
\* (only over an empty key).
C8_IgnorableLinesIgnored ==
    LET lines == fs[CredFile("custom")].lines
    IN  (last.op = "load_credentials" /\ last.service = "custom") =>
            /\ "custom" \in DOMAIN credentials
            /\ \A i \in 1..Len(lines) :
                   Ignorable(lines[i]) =>
                       DictEq(Parse(Remove(lines, i)), credentials["custom"])
            /\ \A i \in 0..Len(lines), line \in IgnorableLines :
                   DictEq(Parse(Insert(lines, i, line)), credentials["custom"])
            /\ last.ret = "False" => <<>> \in DictKeys(credentials["custom"])

\* a file with a comment that holds '=', a line without '=' and a pair is loaded
C8_Witness ==
    /\ last.op = "load_credentials"
    /\ last.ret = "True"
    /\ fs[CredFile("custom")].lines =
           <<<<HASH, WS, "A", EQ, "b">>, <<"B", EQ, "c">>, <<"A">>>>
    /\ credentials["custom"] = <<<<<<"B">>, <<"c">>>>>>

Validators == {"validate_supabase", "validate_stripe", "validate_aws"}

KnownServices == {"supabase", "stripe", "aws", "github"}

\* the fields each service must hold
RequiredFields(service) ==
    CASE service = "supabase" ->
            {Str("SUPABASE_URL"), Str("SUPABASE_ANON_KEY"),
             Str("SUPABASE_SERVICE_ROLE_KEY")}
      [] service = "stripe" ->
            {Str("STRIPE_SECRET_KEY"), Str("STRIPE_PUBLISHABLE_KEY")}
      [] service = "aws" ->
            {Str("AWS_ACCESS_KEY_ID"), Str("AWS_SECRET_ACCESS_KEY"),
             Str("AWS_REGION"), Str("AWS_S3_BUCKET")}

\* the mapping holds the field with a value that is not empty
Holds(creds, field) ==
    \E i \in 1..Len(creds) : creds[i][1] = field /\ creds[i][2] # <<>>

MissingFields(service) ==
    {field \in RequiredFields(service) : ~Holds(credentials[service], field)}

Range(s) == {s[i] : i \in 1..Len(s)}

\* C3: validating a stored service with a required field absent or empty
\* returns False, reports exactly those fields as missing, each once, and
\* emits no format warning.
C3_MissingFieldsFail ==
    (/\ last.op \in Validators
     /\ last.service \in DOMAIN credentials
     /\ MissingFields(last.service) # {}) =>
        /\ last.ret = "False"
        /\ Cardinality(Reported("Missing credentials")) = 1
        /\ \A i \in Reported("Missing credentials") :
               /\ Range(last.reports[i].arg) = MissingFields(last.service)
               /\ Len(last.reports[i].arg) = Cardinality(MissingFields(last.service))
        /\ Reported("format may be incorrect") = {}
        /\ Reported("credentials validated") = {}

\* stripe validated with only STRIPE_SECRET_KEY=sk_test_abc stored
C3_Witness ==
    /\ last.op = "validate_stripe"
    /\ "stripe" \in DOMAIN credentials
    /\ credentials["stripe"] = <<<<Str("STRIPE_SECRET_KEY"), <<"sk_test_", "abc">>>>>>
    /\ last.ret = "False"
    /\ \E i \in Reported("Missing credentials") :
           last.reports[i].arg = <<Str("STRIPE_PUBLISHABLE_KEY")>>

\* C4: validating a stored service whose required fields all hold a value
\* returns True whatever the values are; a value that does not match its
\* pattern adds a warning only.
C4_FormatNeverFails ==
    (/\ last.op \in Validators
     /\ last.service \in DOMAIN credentials
     /\ MissingFields(last.service) = {}) =>
        /\ last.ret = "True"
        /\ Reported("credentials validated") # {}
        /\ Reported("Missing credentials") = {}
        /\ \A i \in Reported("format may be incorrect") :
               last.reports[i].level = "WARNING"

\* supabase validated with SUPABASE_URL=http://example.com: True, with a warning
C4_Witness ==
    /\ last.op = "validate_supabase"
    /\ last.ret = "True"
    /\ "supabase" \in DOMAIN credentials
    /\ Str("SUPABASE_URL") \in DictKeys(credentials["supabase"])
    /\ DictGet(credentials["supabase"], Str("SUPABASE_URL")) =
           <<"http://", "example.com">>
    /\ \E i \in Reported("format may be incorrect") :
           last.reports[i].arg = <<Str("SUPABASE_URL")>>

\* C5: validating a service that no load returning True has stored returns
\* False with an error, opens no file and leaves the registry and the
\* environment as they were.
C5_ValidateNeedsSuccessfulLoad ==
    [][(last'.op \in Validators /\ last'.service \notin history.succeeded) =>
         /\ last'.ret = "False"
         /\ \E i \in 1..Len(last'.reports) : last'.reports[i].level = "ERROR"
         /\ last'.opened = {}
         /\ UNCHANGED <<fs, credentials, environ>>]_vars

\* Validating a service with no stored mapping returns False with the
\* "not loaded" error, opens no file and changes nothing.
ValidateNeverLoads ==
    [][(last'.op \in Validators /\ last'.service \notin DOMAIN credentials) =>
         /\ last'.ret = "False"
         /\ \E i \in 1..Len(last'.reports) :
                last'.reports[i].msg = "Credentials not loaded"
         /\ last'.opened = {}
         /\ UNCHANGED <<fs, credentials, environ>>]_vars

\* every pair of the mapping is in the environment
Exported(creds) ==
    \A i \in 1..Len(creds) :
        creds[i][1] \in DOMAIN environ /\ environ[creds[i][1]] = creds[i][2]

\* C6: while every load that stored a mapping has returned True, the
\* environment holds, for every key those loads exported, the value of the most
\* recent one whose mapping held the key; right after a load returns True all
\* pairs of its mapping are in the environment; and a load changes no other
\* service's stored mapping.
C6_EnvironmentFollowsLoads ==
    /\ [](/\ ~history.raised =>
                \A k \in DOMAIN history.exported :
                    k \in DOMAIN environ /\ environ[k] = history.exported[k]
          /\ (last.op = "load_credentials" /\ last.ret = "True") =>
                Exported(credentials[last.service]))
    /\ [][last'.op = "load_credentials" =>
            \A s \in DOMAIN credentials \ {last'.service} :
                s \in DOMAIN credentials' /\ credentials'[s] = credentials[s]]_vars

\* custom, loaded after stripe, has overwritten STRIPE_SECRET_KEY in the
\* environment, and the stripe mapping still holds its own value
C6_Witness ==
    /\ last.op = "load_credentials"
    /\ last.service = "custom"
    /\ last.ret = "True"
    /\ ~history.raised
    /\ "stripe" \in history.succeeded
    /\ Str("STRIPE_SECRET_KEY") \in DictKeys(credentials["stripe"])
    /\ DictGet(credentials["stripe"], Str("STRIPE_SECRET_KEY")) = <<"sk_test_", "abc">>
    /\ environ[Str("STRIPE_SECRET_KEY")] = <<"sk_live_", "zzz">>

\* C9 as stated: create_template of an unknown service returns False and
\* leaves every file as it was.
C9_UnknownTemplateReturnsFalse ==
    [][(last'.op = "create_template" /\ last'.service \notin KnownServices) =>
         /\ last'.ret = "False"
         /\ fs' = fs]_vars

\* C9: create_template of an unknown service returns None, as it does for a
\* known one, reports an error and leaves every file (existence, contents,
\* mode) as it was.
C9_UnknownTemplateWritesNothing ==
    [][(last'.op = "create_template" /\ last'.service \notin KnownServices) =>
         /\ last'.ret = "None"
         /\ \E i \in 1..Len(last'.reports) :
                /\ last'.reports[i].level = "ERROR"
                /\ last'.reports[i].msg = "Unknown service"
         /\ fs' = fs]_vars

\* create_template("custom") has returned after a template of stripe was written
C9_Witness ==
    /\ last.op = "create_template"
    /\ last.service = "custom"
    /\ last.ret = "None"
    /\ fs[TemplateFile("stripe")].exists
    /\ ~fs[TemplateFile("custom")].exists

\* C10: the mode validate_stripe reports follows the secret key of the stripe
\* mapping: TEST only for an sk_test_ key, LIVE only for an sk_live_ key, and
\* nothing when the stripe mapping holds no secret key.
C10_ModeFromStripeMapping ==
    last.op = "validate_stripe" =>
        LET has == /\ "stripe" \in DOMAIN credentials
                   /\ Str("STRIPE_SECRET_KEY") \in DictKeys(credentials["stripe"])
            key == DictGet(credentials["stripe"], Str("STRIPE_SECRET_KEY"))
        IN  /\ Reported("Using Stripe TEST mode") # {} =>
                   has /\ startswith(key, <<"sk_test_">>)
            /\ Reported("Using Stripe LIVE mode") # {} =>
                   has /\ startswith(key, <<"sk_live_">>)
            /\ ~has => /\ Reported("Using Stripe TEST mode") = {}
                       /\ Reported("Using Stripe LIVE mode") = {}

====
